---- MODULE Spec2Model ----
(***************************************************************************)
(* Model of the pennywise receipt service.                                 *)
(*                                                                         *)
(*  - the idempotent job dispatch of IngestReceiptView.post                *)
(*    (apps/receipts/views.py) over the Job table (apps/receipts/models.py)*)
(*    with the task queue and the job worker;                              *)
(*  - the extraction pipeline of LLMAdapter                                *)
(*    (apps/receipts/services/llm_adapter.py): image loading, model call,  *)
(*    JSON extraction and payload normalization.                           *)
(*                                                                         *)
(* apps/receipts/tasks.py (process_receipt_job) is not part of the         *)
(* sources at hand; the worker is modelled from the specification's        *)
(* JobWorker.run.                                                          *)
(***************************************************************************)
EXTENDS Integers, Sequences, FiniteSets, TLC

VARIABLES
    jobs,        \* committed rows of the Job table: job id -> row
    txn,         \* per request: the row inserted inside its open transaction
    next_id,     \* the Job table's id sequence
    pc,          \* per request: position inside IngestReceiptView.post
    req,         \* per request: [idem, image_uri] as read at lines 25-26
    resp,        \* per request: the Response returned
    queue,       \* task messages sent by process_receipt_job.delay
    delays,      \* log of every process_receipt_job.delay call
    runs,        \* task executions started by workers
    payload,     \* normalizer input: the extracted JSON object
    results,     \* normalizer outcomes, one per run on `payload`
    parsed       \* one call of LLMAdapter.parse_receipt: its argument, the
                 \* environment it ran in and its outcome

jobvars == <<jobs, txn, next_id, pc, req, resp, queue, delays, runs>>
normvars == <<payload, results>>
vars == <<jobs, txn, next_id, pc, req, resp, queue, delays, runs,
          payload, results, parsed>>

(***************************************************************************)
(* Bounds                                                                  *)
(***************************************************************************)
\* number of ingest requests issued
NReq == 2

Reqs == 1..NReq
\* the Idempotency-Key header values clients send
HeaderKeys == {"abc", "xyz"}
NoHeader == "<none>"

\* image_uri values of the request body; "" stands for a missing/empty one
RemoteImage == "https://bucket/receipt.jpg"
LocalImage == "/media/receipt.jpg"
ImageURIs == {"", RemoteImage, LocalImage}

\* an optional column: <<>> is NULL, <<v>> holds v
Null == <<>>
Some(v) == <<v>>

(***************************************************************************)
(* apps/receipts/models.py: Job                                            *)
(***************************************************************************)
PENDING == "PENDING"
RUNNING == "RUNNING"
SUCCEEDED == "SUCCEEDED"
FAILED == "FAILED"
STATUSES == {PENDING, RUNNING, SUCCEEDED, FAILED}

\* Job with status defaulting to RUNNING
Job_defaultRunning(id, idempotency_key) ==
    [id |-> id, idempotency_key |-> idempotency_key, receipt |-> Null, status |-> RUNNING,
     error |-> <<>>, started_at |-> Null, finished_at |-> Null]

\* Job with a placeholder as the default error text
Job_defaultErrorText(id, idempotency_key) ==
    [id |-> id, idempotency_key |-> idempotency_key, receipt |-> Null, status |-> PENDING,
     error |-> <<"-">>, started_at |-> Null, finished_at |-> Null]

\* field defaults of a Job row created with only its idempotency_key
\* (error is text: a sequence of fragments, <<>> is the empty string)
Job(id, idempotency_key) ==
    [id |-> id,
     idempotency_key |-> idempotency_key,
     receipt |-> Null,
     status |-> PENDING,
     error |-> <<>>,
     started_at |-> Null,
     finished_at |-> Null]

\* JobSerializer without "error" among its fields
JobSerializer_withoutError(job) == [job EXCEPT !.error = <<>>]

\* JobSerializer(job).data: the job representation of a response, all the
\* columns of the row
JobSerializer(job) == job

\* Job.objects.get(idempotency_key=idem) as seen by a READ COMMITTED reader:
\* the committed rows holding that key
RowsWithKey(idem) == {id \in DOMAIN jobs : jobs[id].idempotency_key = idem}

\* requests whose open transaction holds an uncommitted row with that key
UncommittedWithKey(idem) == {r \in Reqs : txn[r] # Null /\ txn[r][1].idempotency_key = idem}

\* idempotency_key without unique=True
UniqueViolation_off(idem) == FALSE

\* unique=True on idempotency_key: an INSERT of a key that a committed row
\* holds fails with IntegrityError
UniqueViolation(idem) == RowsWithKey(idem) # {}

(***************************************************************************)
(* Initial state                                                           *)
(***************************************************************************)
NoResponse == [code |-> 0, job |-> Null, via |-> "-"]

JobInit ==
    /\ jobs = <<>>
    /\ txn = [r \in Reqs |-> Null]
    /\ next_id = 1
    /\ pc = [r \in Reqs |-> "idle"]
    /\ req = [r \in Reqs |-> [idem |-> NoHeader, image_uri |-> ""]]
    /\ resp = [r \in Reqs |-> NoResponse]
    /\ queue = <<>>
    /\ delays = <<>>
    /\ runs = <<>>

(***************************************************************************)
(* JSON values, as json.loads produces them.  A value is a tagged tuple:   *)
(*   <<"null">>  <<"bool", b>>  <<"num", n>>  <<"bigint">>                 *)
(*   <<"str", chars>>  <<"list", seq>>  <<"obj", [key -> value]>>          *)
(* Numbers are fixed-point, counted in hundredths (<<"num", 1250>> is      *)
(* 12.5); <<"bigint">> is an integer literal beyond the range of a float   *)
(* (json.loads keeps it as an int of arbitrary size).  A string is its     *)
(* sequence of characters.  <<"datetime", <<y, m, d>>>> is a datetime.     *)
(***************************************************************************)
JNull == <<"null">>
JBool(b) == <<"bool", b>>
JNum(n) == <<"num", n>>
JBigInt == <<"bigint">>
JStr(chars) == <<"str", chars>>
JList(seq) == <<"list", seq>>
JObj(f) == <<"obj", f>>
JDatetime(ymd) == <<"datetime", ymd>>
EmptyDict == [k \in {} |-> JNull]

\* Python truthiness: `x or y` takes x when bool(x)
Truthy(v) ==
    CASE v[1] = "null" -> FALSE
      [] v[1] = "bool" -> v[2]
      [] v[1] = "num" -> v[2] # 0
      [] v[1] = "bigint" -> TRUE
      [] v[1] = "str" -> Len(v[2]) > 0
      [] v[1] = "list" -> Len(v[2]) > 0
      [] v[1] = "obj" -> DOMAIN v[2] # {}
      [] OTHER -> TRUE

\* a or b
Or(a, b) == IF Truthy(a) THEN a ELSE b

\* value in (None, ""): tuple membership compares with ==
InNoneOrEmpty(v) == v = JNull \/ v = JStr(<<>>)

\* dict.get(key): None when the key is absent
Get(d, key) == IF key \in DOMAIN d THEN d[key] ELSE JNull

\* outcome of a call: <<"ok", value>> or <<"raise", exception class>>
Ok(v) == <<"ok", v>>
Raise(exc) == <<"raise", exc>>
IsRaise(o) == o[1] = "raise"

(***************************************************************************)
(* float(text) and datetime.fromisoformat(text) on character sequences     *)
(***************************************************************************)
Digits == {"0", "1", "2", "3", "4", "5", "6", "7", "8", "9"}
DigitVal(c) ==
    CASE c = "0" -> 0 [] c = "1" -> 1 [] c = "2" -> 2 [] c = "3" -> 3
      [] c = "4" -> 4 [] c = "5" -> 5 [] c = "6" -> 6 [] c = "7" -> 7
      [] c = "8" -> 8 [] c = "9" -> 9

AllDigits(s) == \A i \in 1..Len(s) : s[i] \in Digits

RECURSIVE DecimalVal(_)
DecimalVal(s) ==
    IF s = <<>> THEN 0 ELSE 10 * DecimalVal(SubSeq(s, 1, Len(s) - 1)) + DigitVal(s[Len(s)])

RECURSIVE Strip(_)
\* str.strip(): drop leading and trailing blanks
Strip(s) ==
    IF s = <<>> THEN s
    ELSE IF Head(s) = " " THEN Strip(Tail(s))
    ELSE IF s[Len(s)] = " " THEN Strip(SubSeq(s, 1, Len(s) - 1))
    ELSE s

\* position of the first "." of s, 0 when there is none
DotAt(s) ==
    IF \E i \in 1..Len(s) : s[i] = "."
    THEN CHOOSE i \in 1..Len(s) : s[i] = "." /\ \A j \in 1..(i - 1) : s[j] # "."
    ELSE 0

\* the decimal literal whole.frac in hundredths, or -1 when it is none
\* (digits, optionally a point and at most two fraction digits)
Hundredths(whole, frac) ==
    IF /\ AllDigits(whole) /\ AllDigits(frac)
       /\ Len(whole) + Len(frac) > 0
       /\ Len(frac) <= 2
    THEN 100 * DecimalVal(whole)
         + (IF Len(frac) = 0 THEN 0
            ELSE IF Len(frac) = 1 THEN 10 * DecimalVal(frac)
            ELSE DecimalVal(frac))
    ELSE -1

\* the unsigned literal s, split at its point d (0: no point)
UnsignedAt(s, d) ==
    IF d = 0 THEN Hundredths(s, <<>>)
    ELSE Hundredths(SubSeq(s, 1, d - 1), SubSeq(s, d + 1, Len(s)))

\* the signed result of a literal whose unsigned part is u
Signed(negative, u) ==
    IF u < 0 THEN <<"raise", "ValueError">>
    ELSE <<"ok", IF negative THEN 0 - u ELSE u>>

\* float(text) of a stripped text t
FloatOfStripped(t) ==
    IF t # <<>> /\ Head(t) \in {"-", "+"}
    THEN Signed(Head(t) = "-", UnsignedAt(Tail(t), DotAt(Tail(t))))
    ELSE Signed(FALSE, UnsignedAt(t, DotAt(t)))

\* float(str): Ok(hundredths) or Raise("ValueError")
FloatOfStr(chars) == FloatOfStripped(Strip(chars))

\* float(value) for any JSON value
Float(value) ==
    CASE value[1] = "num" -> Ok(value[2])
      [] value[1] = "bool" -> Ok(IF value[2] THEN 100 ELSE 0)
      [] value[1] = "bigint" -> Raise("OverflowError")
      [] value[1] = "str" -> FloatOfStr(value[2])
      [] OTHER -> Raise("TypeError")

\* days of month m of year y
DaysIn(y, m) ==
    IF m \in {4, 6, 9, 11} THEN 30
    ELSE IF m # 2 THEN 31
    ELSE IF y % 4 = 0 /\ (y % 100 # 0 \/ y % 400 = 0) THEN 29
    ELSE 28

\* the date y-m-d when there is such a day
DateOf(y, m, d) ==
    IF y >= 1 /\ m \in 1..12 /\ d \in 1..DaysIn(y, m)
    THEN Ok(<<y, m, d>>)
    ELSE Raise("ValueError")

\* datetime.fromisoformat(text) for a date-only text YYYY-MM-DD:
\* Ok(<<y, m, d>>) or Raise("ValueError")
FromIsoFormat(text) ==
    IF /\ Len(text) = 10
       /\ text[5] = "-" /\ text[8] = "-"
       /\ AllDigits(SubSeq(text, 1, 4)) /\ AllDigits(SubSeq(text, 6, 7))
       /\ AllDigits(SubSeq(text, 9, 10))
    THEN DateOf(DecimalVal(SubSeq(text, 1, 4)), DecimalVal(SubSeq(text, 6, 7)),
                DecimalVal(SubSeq(text, 9, 10)))
    ELSE Raise("ValueError")

(***************************************************************************)
(* apps/receipts/services/llm_adapter.py: the payload normalizer           *)
(***************************************************************************)
\* the try/except of _to_float around f = float(value): TypeError and
\* ValueError give 0.0, any other exception leaves _to_float
FloatOrZero(f) ==
    IF ~IsRaise(f) THEN JNum(f[2])
    ELSE IF f[2] \in {"TypeError", "ValueError"} THEN JNum(0)
    ELSE f

\* LLMAdapter._to_float: a <<"num", n>>, or <<"raise", class>> for an exception
\* that `except (TypeError, ValueError)` does not catch
_to_float(value) ==
    IF InNoneOrEmpty(value) THEN JNum(0) ELSE FloatOrZero(Float(value))

\* the end of _parse_datetime: the parsed date, None on ValueError
DateOrNone(d) == IF IsRaise(d) THEN JNull ELSE JDatetime(d[2])

\* lines 213-218 of _parse_datetime on the stripped text
ParseStripped(text) ==
    IF text = <<>> THEN JNull ELSE DateOrNone(FromIsoFormat(text))

\* LLMAdapter._parse_datetime.  str(value) of a value that is no string is
\* never the text of a date in this model
_parse_datetime(value) ==
    IF ~Truthy(value) THEN JNull
    ELSE IF value[1] = "datetime" THEN value
    ELSE IF value[1] # "str" THEN JNull
    ELSE ParseStripped(Strip(value[2]))

\* one probe of pick's loop: the value of the key when usable
PickOr(value, rest) == IF ~InNoneOrEmpty(value) THEN value ELSE rest

RECURSIVE pick(_, _, _)
\* the closure pick(keys, default) of _normalize_payload over dict `record`:
\* the keys are probed in order
pick(record, keys, default) ==
    IF keys = <<>> THEN default
    ELSE PickOr(Get(record, Head(keys)), pick(record, Tail(keys), default))

\* text constants of the normalizer
StrAUD == <<"A", "U", "D">>
StrUnknown == <<"U", "n", "k", "n", "o", "w", "n">>
StrZero == <<"0">>

\* one numeric field of a line item (lines 191-193)
ItemNumber(value) ==
    IF ~InNoneOrEmpty(value) THEN _to_float(value) ELSE JNull

\* the dict appended for one entry of the items list, <<>> for a dropped entry
NormalizeItem(item) ==
    IF item[1] = "str"
    THEN <<[line_text |-> item, quantity |-> JNull, unit_price |-> JNull, amount |-> JNull]>>
    ELSE IF item[1] = "obj"
    THEN <<[line_text |-> Or(Get(item[2], "line_text"),
                             Or(Get(item[2], "description"),
                                Or(Get(item[2], "name"), JStr(<<>>)))),
            quantity |-> ItemNumber(Get(item[2], "quantity")),
            unit_price |-> ItemNumber(Get(item[2], "unit_price")),
            amount |-> ItemNumber(Get(item[2], "amount"))]>>
    ELSE <<>>

RECURSIVE NormalizeItemSeq(_)
\* the for loop of _normalize_items
NormalizeItemSeq(seq) ==
    IF seq = <<>> THEN <<>>
    ELSE NormalizeItem(Head(seq)) \o NormalizeItemSeq(Tail(seq))

\* LLMAdapter._normalize_items
_normalize_items(items) ==
    IF items[1] # "list" THEN <<>> ELSE NormalizeItemSeq(items[2])

\* the entries of the normalized items in which a call of _to_float raised
ItemsRaised(items) ==
    {i \in 1..Len(items) :
        \E f \in {"quantity", "unit_price", "amount"} : IsRaise(items[i][f])}

\* the merchant dict of lines 161-166, for a dict merchant_block
MerchantOf(record, merchant_block) ==
    [k \in {"name", "abn", "address"} \cup DOMAIN merchant_block |->
        CASE k = "name" -> pick(record, <<"merchant_name", "shop_name">>,
                                Or(Get(merchant_block, "name"), JStr(StrUnknown)))
          [] k = "abn" -> pick(record, <<"merchant_abn", "shop_abn">>,
                               Or(Get(merchant_block, "abn"), JStr(<<>>)))
          [] k = "address" -> pick(record, <<"merchant_address", "shop_address">>,
                                   Or(Get(merchant_block, "address"), JStr(<<>>)))
          [] OTHER -> merchant_block[k]]

\* uuid_value with a fresh identifier in every call
uuid_value_alwaysFresh(rec, uuid4) == JStr(uuid4)

\* line 152: uuid_value = pick(["uuid"]) or str(uuid.uuid4())
uuid_value(rec, uuid4) == Or(pick(rec, <<"uuid">>, JNull), JStr(uuid4))

\* lines 170-178: the dict returned, unless a call above raised
NormalizedDict(rec, uuid4, total_value, merchant_block, items) ==
    IF IsRaise(total_value) THEN total_value
    ELSE IF merchant_block[1] # "obj" THEN Raise("AttributeError")
    ELSE IF ItemsRaised(items) # {} THEN Raise("OverflowError")
    ELSE Ok([uuid |-> uuid_value(rec, uuid4),
             total |-> total_value,
             currency |-> Or(pick(rec, <<"currency">>, JStr(StrAUD)), JStr(StrAUD)),
             purchased_at |-> _parse_datetime(
                 pick(rec, <<"purchased_at", "date_purchased", "purchase_date">>, JNull)),
             category |-> Or(pick(rec, <<"category", "receipt_category">>, JNull), JNull),
             merchant |-> MerchantOf(rec, merchant_block[2]),
             items |-> items])

\* lines 145-178 on `record`, the value line 143 chose
NormalizeRecord(record, uuid4) ==
    IF record[1] # "obj" THEN Raise("AttributeError")
    ELSE NormalizedDict(
             record[2], uuid4,
             _to_float(pick(record[2], <<"total", "amount", "grand_total">>, JStr(StrZero))),
             Or(Get(record[2], "merchant"), JObj(EmptyDict)),
             _normalize_items(Or(Get(record[2], "items"),
                                 Or(Get(record[2], "line_items"), JList(<<>>)))))

\* line 143: record = payload.get("receipt_data") if "receipt_data" in payload
\* else payload
record_of(p) == IF "receipt_data" \in DOMAIN p THEN p["receipt_data"] ELSE JObj(p)

\* LLMAdapter._normalize_payload on the dict `p`; uuid4 is what
\* str(uuid.uuid4()) returns in this call.  <<"ok", dict>> or <<"raise", class>>
_normalize_payload(p, uuid4) == NormalizeRecord(record_of(p), uuid4)

(***************************************************************************)
(* apps/receipts/services/llm_adapter.py: the extraction pipeline.         *)
(* What the network, the filesystem and the model do in one run is the     *)
(* run's environment `env`:                                                *)
(*   http_get    "200" | "404" | "timeout"   answer to requests.get        *)
(*   path_exists BOOLEAN                     Path(...).exists()            *)
(*   http_post   "200" | "500" | "timeout"   answer to requests.post       *)
(*   response    text                        result.get("response")        *)
(*   uuid4       chars                       str(uuid.uuid4())             *)
(* A model text is a sequence of tokens: <<"prose">> (words that are no    *)
(* JSON), <<"fence">> (```), <<"fence_json">> (```json) and                *)
(* <<"json", value>> (the text of one JSON document).                      *)
(***************************************************************************)
Prose == <<"prose">>
Fence == <<"fence">>
FenceJson == <<"fence_json">>
JsonText(value) == <<"json", value>>
IsFence(tok) == tok[1] \in {"fence", "fence_json"}

\* outcome of the pipeline or of one of its stages; `stages` lists the
\* stages invoked so far
Returned(value, stages) ==
    [ok |-> TRUE, exc |-> "", msg |-> "", value |-> <<value>>, stages |-> stages]
Raised(exc, msg, stages) ==
    [ok |-> FALSE, exc |-> exc, msg |-> msg, value |-> <<>>, stages |-> stages]

\* LLMAdapter._load_image_as_base64
_load_image_as_base64(image_uri, env) ==
    IF image_uri = RemoteImage
    THEN IF env.http_get = "timeout"
         THEN Raised("Timeout", "requests.get timed out", <<"load_image">>)
         ELSE IF env.http_get # "200"
         THEN Raised("HTTPError", "raise_for_status", <<"load_image">>)
         ELSE Returned(<<"b64", image_uri>>, <<"load_image">>)
    ELSE IF ~env.path_exists
         THEN Raised("LLMAdapterError", "Receipt image not found", <<"load_image">>)
         ELSE Returned(<<"b64", image_uri>>, <<"load_image">>)

\* LLMAdapter._call_model
_call_model(image_b64, env) ==
    IF env.http_post = "timeout"
    THEN Raised("Timeout", "requests.post timed out", <<"load_image", "call_model">>)
    ELSE IF env.http_post # "200"
    THEN Raised("HTTPError", "raise_for_status", <<"load_image", "call_model">>)
    ELSE IF env.response = <<>>
    THEN Raised("LLMAdapterError", "Empty response from LLM provider",
                <<"load_image", "call_model">>)
    ELSE Returned(env.response, <<"load_image", "call_model">>)

\* positions of the fences of a text
FencesOf(text) == {i \in 1..Len(text) : IsFence(text[i])}

\* the smallest position of a non-empty set of positions
First(positions) == CHOOSE i \in positions : \A j \in positions : i <= j

\* the text between the first fence and the next one
Between(text, open, fences) == SubSeq(text, open + 1, First(fences \ {open}) - 1)

\* re.search(r"```(?:json)?\s*(.*?)\s*```", text, re.DOTALL) and line 132:
\* group(1) when two fences match, the whole text otherwise
RawJson(text, fences) ==
    IF Cardinality(fences) < 2 THEN text
    ELSE Between(text, First(fences), fences)

\* json.loads(raw_json): the text must be exactly one JSON document
JsonLoads(raw_json) ==
    IF Len(raw_json) = 1 /\ raw_json[1][1] = "json"
    THEN Ok(raw_json[1][2])
    ELSE Raise("JSONDecodeError")

\* lines 135-140 on the outcome of json.loads
ObjectOf(loaded) ==
    IF IsRaise(loaded)
    THEN Raised("LLMAdapterError", "LLM response was not valid JSON",
                <<"load_image", "call_model", "extract_json">>)
    ELSE IF loaded[2][1] # "obj"
    THEN Raised("LLMAdapterError", "LLM response JSON must be an object",
                <<"load_image", "call_model", "extract_json">>)
    ELSE Returned(loaded[2][2], <<"load_image", "call_model", "extract_json">>)

\* LLMAdapter._extract_json_payload
_extract_json_payload(llm_response) ==
    ObjectOf(JsonLoads(RawJson(llm_response, FencesOf(llm_response))))

AllStages == <<"load_image", "call_model", "extract_json", "normalize">>

\* ParseResult with the unwrapped record as raw_json
ParseResult_rawIsRecord(normalized, extracted) ==
    IF IsRaise(normalized) THEN Raised(normalized[2], "", AllStages)
    ELSE Returned(normalized[2] @@ [raw_json |-> record_of(extracted)[2]], AllStages)

\* lines 89-98: the ParseResult built from the normalized dict, with the
\* extracted payload as raw_json
ParseResult(normalized, extracted) ==
    IF IsRaise(normalized) THEN Raised(normalized[2], "", AllStages)
    ELSE Returned(normalized[2] @@ [raw_json |-> extracted], AllStages)

\* lines 88-98 after _extract_json_payload
AfterExtract(extracted, env) ==
    IF ~extracted.ok THEN extracted
    ELSE ParseResult(_normalize_payload(extracted.value[1], env.uuid4), extracted.value[1])

\* lines 87-98 after _call_model
AfterCall(llm_response, env) ==
    IF ~llm_response.ok THEN llm_response
    ELSE AfterExtract(_extract_json_payload(llm_response.value[1]), env)

\* lines 86-98 after _load_image_as_base64
AfterLoad(image, env) ==
    IF ~image.ok THEN image
    ELSE AfterCall(_call_model(image.value[1], env), env)

\* LLMAdapter.parse_receipt: the four stages in order
parse_receipt(image_uri, env) == AfterLoad(_load_image_as_base64(image_uri, env), env)

\* the exception classes the adapter defines for its failures
ClassifiedErrors == {"LLMAdapterError"}

(***************************************************************************)
(* Environments of a pipeline run                                          *)
(***************************************************************************)
\* what str(uuid.uuid4()) may return: fresh texts, each standing for the 36
\* characters of a random UUID
UUID4s == {<<"<uuid4-a>">>, <<"<uuid4-b>">>}

\* a receipt as the prompt asks for it
GoodPayload ==
    [total |-> JNum(1250),
     currency |-> JStr(StrAUD),
     merchant |-> JObj([name |-> JStr(<<"C", "o", "l", "e", "s">>)]),
     items |-> JList(<<JStr(<<"m", "i", "l", "k">>)>>)]

\* the same receipt with the merchant given as a bare string
FlatMerchantPayload ==
    [total |-> JNum(1250),
     merchant |-> JStr(<<"C", "o", "l", "e", "s">>)]

\* texts a model answers with
Responses ==
    {<<>>,
     <<Prose, FenceJson, JsonText(JObj(GoodPayload)), Fence, Prose>>,
     <<JsonText(JObj(GoodPayload))>>,
     <<Prose>>,
     <<Fence, JsonText(JList(<<JNum(500)>>)), Fence>>,
     <<JsonText(JObj(FlatMerchantPayload))>>}

Envs ==
    [http_get : {"200", "404", "timeout"},
     path_exists : BOOLEAN,
     http_post : {"200", "500", "timeout"},
     response : Responses,
     uuid4 : UUID4s]

\* the environments of a run on a remote and on a local image, one for each
\* way the run can go: what the run never looks at is held fixed
RemoteEnvs ==
    {env \in Envs :
        /\ ~env.path_exists
        /\ env.http_post # "200" => env.response = <<>>
        /\ env.http_get # "200" => (env.http_post = "200" /\ env.response = <<>>)
        /\ env.response # <<JsonText(JObj(GoodPayload))>> => env.uuid4 = <<"<uuid4-a>">>}

LocalEnvs ==
    {env \in Envs :
        /\ env.http_get = "200"
        /\ env.http_post # "200" => env.response = <<>>
        /\ ~env.path_exists => (env.http_post = "200" /\ env.response = <<>>)
        /\ env.response # <<JsonText(JObj(GoodPayload))>> => env.uuid4 = <<"<uuid4-a>">>}

EnvsFor(image_uri) == IF image_uri = RemoteImage THEN RemoteEnvs ELSE LocalEnvs

(***************************************************************************)
(* apps/receipts/views.py: IngestReceiptView.post, one action per step a   *)
(* concurrent request or worker can observe                                *)
(***************************************************************************)
\* django.utils.crypto.get_random_string(24): a fresh key of request r
get_random_string(r) == "random" \o ToString(r)

\* the Response of request r; `via` notes the line of post that returned it
Respond(r, code, job, via) ==
    resp' = [resp EXCEPT ![r] = [code |-> code, job |-> job, via |-> via]]

\* delay called whether or not the job was created
TasksToSend_always(job_id, image_uri, created) ==
    <<[job_id |-> job_id, image_uri |-> image_uri]>>

\* lines 30-31: process_receipt_job.delay(job.id, image_uri) is called only for
\* a job that get_or_create created
TasksToSend(job_id, image_uri, created) ==
    IF created THEN <<[job_id |-> job_id, image_uri |-> image_uri]>> ELSE <<>>

\* a check of image_uri that lets every request pass
image_uri_required_never(image_uri) == FALSE

\* line 27: `if not image_uri`, answered with "image_uri required"
image_uri_required(image_uri) == image_uri = ""

\* lines 25-27: read image_uri and the Idempotency-Key header, reject a
\* request without image_uri.  Requests are numbered in their order of arrival
post_begin(r) ==
    /\ pc[r] = "idle"
    /\ \A q \in Reqs : q < r => pc[q] # "idle"
    /\ \E header \in HeaderKeys \cup {NoHeader}, image_uri \in ImageURIs :
          LET idem == IF header = NoHeader THEN get_random_string(r) ELSE header
          IN  /\ req' = [req EXCEPT ![r] = [idem |-> idem, image_uri |-> image_uri]]
              /\ IF image_uri_required(image_uri)
                 THEN /\ Respond(r, 400, Null, "no image_uri")
                      /\ pc' = [pc EXCEPT ![r] = "done"]
                 ELSE /\ pc' = [pc EXCEPT ![r] = "get"]
                      /\ UNCHANGED resp
    /\ UNCHANGED <<jobs, txn, next_id, queue, delays, runs>>
    /\ UNCHANGED <<normvars, parsed>>

\* line 29, get_or_create's lookup, and line 30 when it finds the row
post_get(r) ==
    /\ pc[r] = "get"
    /\ IF RowsWithKey(req[r].idem) # {}
       THEN LET id == CHOOSE x \in RowsWithKey(req[r].idem) : TRUE
            IN  /\ Respond(r, 200, Some(JobSerializer(jobs[id])), "found")
                /\ queue' = queue \o TasksToSend(id, req[r].image_uri, FALSE)
                /\ delays' = delays \o TasksToSend(id, req[r].image_uri, FALSE)
                /\ pc' = [pc EXCEPT ![r] = "done"]
       ELSE /\ pc' = [pc EXCEPT ![r] = "create"]
            /\ UNCHANGED <<resp, queue, delays>>
    /\ UNCHANGED <<jobs, txn, next_id, req, runs>>
    /\ UNCHANGED <<normvars, parsed>>

\* line 29, get_or_create's INSERT.  It waits while another transaction
\* holds an uncommitted row with the key; on a unique violation
\* get_or_create looks the row up again and line 30 returns it
post_create(r) ==
    /\ pc[r] = "create"
    /\ UncommittedWithKey(req[r].idem) = {}
    /\ IF UniqueViolation(req[r].idem)
       THEN LET id == CHOOSE x \in RowsWithKey(req[r].idem) : TRUE
            IN  /\ Respond(r, 200, Some(JobSerializer(jobs[id])), "lost insert")
                /\ queue' = queue \o TasksToSend(id, req[r].image_uri, FALSE)
                /\ delays' = delays \o TasksToSend(id, req[r].image_uri, FALSE)
                /\ pc' = [pc EXCEPT ![r] = "done"]
                /\ UNCHANGED <<txn, next_id>>
       ELSE /\ txn' = [txn EXCEPT ![r] = Some(Job(next_id, req[r].idem))]
            /\ next_id' = next_id + 1
            /\ pc' = [pc EXCEPT ![r] = "delay"]
            /\ UNCHANGED <<resp, queue, delays>>
    /\ UNCHANGED <<jobs, req, runs>>
    /\ UNCHANGED <<normvars, parsed>>

\* line 31: process_receipt_job.delay(job.id, image_uri), inside the
\* transaction.atomic() block
post_delay(r) ==
    /\ pc[r] = "delay"
    /\ queue' = queue \o TasksToSend(txn[r][1].id, req[r].image_uri, TRUE)
    /\ delays' = delays \o TasksToSend(txn[r][1].id, req[r].image_uri, TRUE)
    /\ pc' = [pc EXCEPT ![r] = "commit"]
    /\ UNCHANGED <<jobs, txn, next_id, req, resp, runs>>
    /\ UNCHANGED <<normvars, parsed>>

\* line 32 and the end of the with block: the transaction commits and the
\* 202 response is returned
post_commit(r) ==
    /\ pc[r] = "commit"
    /\ jobs' = jobs @@ (txn[r][1].id :> txn[r][1])
    /\ txn' = [txn EXCEPT ![r] = Null]
    /\ Respond(r, 202, Some(JobSerializer(txn[r][1])), "created")
    /\ pc' = [pc EXCEPT ![r] = "done"]
    /\ UNCHANGED <<next_id, req, queue, delays, runs>>
    /\ UNCHANGED <<normvars, parsed>>

(***************************************************************************)
(* The job worker (process_receipt_job), from the specification's          *)
(* JobWorker.run                                                           *)
(***************************************************************************)
NoOutcome == <<>>

\* a worker takes the next task; the task loads its job and marks it RUNNING.
\* A job id with no committed row makes the task fail before any transition
worker_start ==
    /\ queue # <<>>
    /\ LET task == Head(queue)
       IN  IF task.job_id \in DOMAIN jobs
           THEN /\ jobs' = [jobs EXCEPT ![task.job_id].status = RUNNING,
                                        ![task.job_id].started_at = Some("now")]
                /\ runs' = Append(runs, [job_id |-> task.job_id, image_uri |-> task.image_uri,
                                         state |-> "running", out |-> NoOutcome])
           ELSE /\ runs' = Append(runs, [job_id |-> task.job_id, image_uri |-> task.image_uri,
                                         state |-> "crashed", out |-> NoOutcome])
                /\ UNCHANGED jobs
    /\ queue' = Tail(queue)
    /\ UNCHANGED <<txn, next_id, pc, req, resp, delays>>
    /\ UNCHANGED <<normvars, parsed>>

\* the row a finished run writes: SUCCEEDED with the receipt reference, or
\* FAILED with the error text built from the failure's class and message
JobAfterRun(job, out, receipt_id) ==
    IF out.ok
    THEN [job EXCEPT !.status = SUCCEEDED, !.receipt = Some(receipt_id),
                     !.finished_at = Some("now")]
    ELSE [job EXCEPT !.status = FAILED, !.error = <<out.exc, ": ", out.msg>>,
                     !.finished_at = Some("now")]

\* what the log of task executions keeps of a pipeline outcome
RunLog(out, env) ==
    [ok |-> out.ok, exc |-> out.exc, msg |-> out.msg, stages |-> out.stages,
     model_status |-> IF Len(out.stages) >= 2 THEN env.http_post ELSE "-"]

\* the end of task execution i whose pipeline run ended with `out`.  The
\* worker catches exactly the classified failures: any other exception leaves
\* the task as an internal fault, with the job as it is.  The receipt stored
\* by the i-th task execution is receipt i
FinishWith(i, out, env) ==
    IF out.ok \/ out.exc \in ClassifiedErrors
    THEN /\ jobs' = [jobs EXCEPT ![runs[i].job_id] = JobAfterRun(jobs[runs[i].job_id], out, i)]
         /\ runs' = [runs EXCEPT ![i].state = "done", ![i].out = <<RunLog(out, env)>>]
    ELSE /\ runs' = [runs EXCEPT ![i].state = "crashed", ![i].out = <<RunLog(out, env)>>]
         /\ UNCHANGED jobs

\* the task runs the pipeline and records its end
worker_finish(i) ==
    /\ runs[i].state = "running"
    /\ \E env \in EnvsFor(runs[i].image_uri) :
          FinishWith(i, parse_receipt(runs[i].image_uri, env), env)
    /\ UNCHANGED <<txn, next_id, pc, req, resp, queue, delays>>
    /\ UNCHANGED <<normvars, parsed>>

(***************************************************************************)
(* Specification of the job service                                        *)
(***************************************************************************)
Init ==
    /\ JobInit
    /\ payload = EmptyDict
    /\ results = <<>>
    /\ parsed = Null

Next ==
    \/ \E r \in Reqs : post_begin(r)
    \/ \E r \in Reqs : post_get(r)
    \/ \E r \in Reqs : post_create(r)
    \/ \E r \in Reqs : post_delay(r)
    \/ \E r \in Reqs : post_commit(r)
    \/ worker_start
    \/ \E i \in DOMAIN runs : worker_finish(i)

Spec == Init /\ [][Next]_vars

(***************************************************************************)
(* Specification of the normalizer: _normalize_payload applied to the      *)
(* dicts that _extract_json_payload can return.  `payload` is the dict,    *)
(* `results` the outcomes of the calls made on it so far.                  *)
(***************************************************************************)
\* calls of the normalizer on one payload
MaxRuns == 2

\* the dicts over a subset of `keys` with values in `values`
Dicts(keys, values) == UNION {[S -> values] : S \in SUBSET keys}

StrColes == <<"C", "o", "l", "e", "s">>
StrIGA == <<"I", "G", "A">>
Str12_5 == <<"1", "2", ".", "5">>

\* values under total / amount / grand_total
TotalValues ==
    {JNull, JStr(<<>>), JStr(Str12_5), JStr(<<"n", "/", "a">>), JNum(0), JNum(750),
     JBool(TRUE), JList(<<>>), JBigInt}

\* values under merchant_name / shop_name / the nested name
NameValues ==
    {JNull, JStr(<<>>), JStr(StrColes), JStr(StrIGA), JNum(0), JBool(FALSE)}

\* values under merchant
MerchantValues ==
    {JNull, JStr(StrColes), JList(<<>>), JObj(EmptyDict)}
    \cup {JObj([name |-> v]) : v \in NameValues}
    \cup {JObj([name |-> JStr(StrIGA), phone |-> JStr(<<"1", "3">>)])}

\* values under uuid / currency / category
TextValues ==
    {JNull, JStr(<<>>), JStr(<<"N", "Z", "D">>), JNum(0), JNum(100)}

\* values under purchased_at / date_purchased
DateValues ==
    {JNull, JStr(<<" ">>), JNum(500),
     JStr(<<"2", "0", "2", "4", "-", "0", "3", "-", "0", "1">>),
     JStr(<<"2", "0", "2", "3", "-", "0", "2", "-", "3", "0">>)}

\* values under items / line_items
ItemsValues ==
    {JNull, JList(<<>>), JStr(<<"m", "i", "l", "k">>),
     JList(<<JStr(<<"m", "i", "l", "k">>), JNum(100)>>),
     JList(<<JObj([name |-> JStr(<<"m", "i", "l", "k">>), quantity |-> JStr(<<"2">>),
                   amount |-> JNum(350)])>>),
     JList(<<JObj([description |-> JStr(<<"t", "e", "a">>), quantity |-> JBigInt])>>)}

\* values under quantity / unit_price / amount of a line item
NumberValues ==
    {JNull, JStr(<<>>), JStr(<<"2">>), JStr(<<"1", "2", ".", "5", "0", "a", "b", "c">>),
     JNum(350), JBool(TRUE), JList(<<>>), JBigInt}

\* values under receipt_data
WrappedValues ==
    {JNull, JList(<<>>), JObj(EmptyDict),
     JObj([total |-> JNum(750), merchant_name |-> JStr(StrColes)]),
     JObj([amount |-> JStr(Str12_5), merchant |-> JObj([name |-> JStr(StrIGA)])])}

\* the dicts normalized: every combination within one group of keys
Payloads ==
    Dicts({"total", "amount", "grand_total"}, TotalValues)
    \cup {names @@ [merchant |-> m] :
             names \in Dicts({"merchant_name", "shop_name"}, NameValues), m \in MerchantValues}
    \cup Dicts({"merchant_name", "shop_name"}, NameValues)
    \cup Dicts({"uuid", "currency", "category"}, TextValues)
    \cup Dicts({"purchased_at", "date_purchased"}, DateValues)
    \cup Dicts({"items", "line_items"}, ItemsValues)
    \cup {[items |-> JList(<<JObj(numbers)>>)] :
             numbers \in Dicts({"quantity", "unit_price", "amount"}, NumberValues)}
    \cup {outer @@ [receipt_data |-> w] :
             outer \in Dicts({"total"}, {JNum(100)}), w \in WrappedValues}

NormInit ==
    /\ JobInit
    /\ payload \in Payloads
    /\ results = <<>>
    /\ parsed = Null

\* one call self._normalize_payload(payload), in which uuid.uuid4() gives u
normalize(u) ==
    /\ Len(results) < MaxRuns
    /\ results' = Append(results, _normalize_payload(payload, u))
    /\ UNCHANGED <<payload, parsed>>
    /\ UNCHANGED jobvars

NormNext == \E u \in UUID4s : normalize(u)

NormSpec == NormInit /\ [][NormNext]_vars

(***************************************************************************)
(* Specification of the pipeline: one call of LLMAdapter.parse_receipt on  *)
(* an image reference, in any environment                                  *)
(***************************************************************************)
\* a receipt wrapped in receipt_data
WrappedPayload == [receipt_data |-> JObj(GoodPayload)]

\* the texts a model answers with, and a wrapped receipt
PipeResponses ==
    Responses \cup {<<FenceJson, JsonText(JObj(WrappedPayload)), Fence>>}

\* every combination of what the network, the filesystem, the model and
\* uuid4 do in one call
PipeEnvs ==
    [http_get : {"200", "404", "timeout"},
     path_exists : BOOLEAN,
     http_post : {"200", "500", "timeout"},
     response : PipeResponses,
     uuid4 : UUID4s]

PipeInit ==
    /\ JobInit
    /\ payload = EmptyDict
    /\ results = <<>>
    /\ parsed = Null

\* LLMAdapter().parse_receipt(image_uri) in environment env
parse(image_uri, env) ==
    /\ parsed = Null
    /\ parsed' = Some([image_uri |-> image_uri, env |-> env,
                       out |-> parse_receipt(image_uri, env)])
    /\ UNCHANGED normvars
    /\ UNCHANGED jobvars

PipeNext == \E image_uri \in {RemoteImage, LocalImage}, env \in PipeEnvs : parse(image_uri, env)

PipeSpec == PipeInit /\ [][PipeNext]_vars

(***************************************************************************)
(* Properties of the job service                                           *)
(***************************************************************************)
\* every row of the Job table, committed or inside an open transaction
AllRows == {jobs[id] : id \in DOMAIN jobs} \cup {txn[r][1] : r \in {q \in Reqs : txn[q] # Null}}

\* the idempotency keys requests have carried
KeysInUse == {req[r].idem : r \in {q \in Reqs : pc[q] # "idle"}}

\* the delay calls made for jobs holding key k
DelaysForKey(k) ==
    {i \in DOMAIN delays :
        \E row \in AllRows : row.id = delays[i].job_id /\ row.idempotency_key = k}

\* C1: for every idempotency key, whatever the interleaving of the submits
\* carrying it, process_receipt_job.delay is called at most once for the key
C1_AtMostOneDispatchPerKey ==
    \A k \in KeysInUse : Cardinality(DelaysForKey(k)) <= 1

\* two submits carried one key, one lost the insert to the other, and the
\* key was dispatched once
C1_Witness ==
    \E r1, r2 \in Reqs :
        /\ r1 # r2 /\ req[r1].idem = req[r2].idem
        /\ pc[r1] = "done" /\ pc[r2] = "done"
        /\ resp[r1].code = 202 /\ resp[r2].via = "lost insert"
        /\ Cardinality(DelaysForKey(req[r1].idem)) = 1

\* the finished submits that carried key k with an image_uri
Answered(k) ==
    {r \in Reqs : pc[r] = "done" /\ req[r].idem = k /\ req[r].image_uri # ""}

\* the submits carrying key k that are inside post
InFlight(k) ==
    {r \in Reqs : pc[r] \notin {"idle", "done"} /\ req[r].idem = k}

\* C2: of the submits that carry one key and an image_uri, at most one is
\* answered 202 and the others are answered 200, all answers hold the same
\* job id, and once all of them are answered exactly one was answered 202
C2_OneCreatedOthersExisting ==
    \A k \in KeysInUse :
        /\ \A r \in Answered(k) : resp[r].code \in {200, 202}
        /\ Cardinality({r \in Answered(k) : resp[r].code = 202}) <= 1
        /\ \A r1, r2 \in Answered(k) : resp[r1].job[1].id = resp[r2].job[1].id
        /\ (Answered(k) # {} /\ InFlight(k) = {})
              => Cardinality({r \in Answered(k) : resp[r].code = 202}) = 1

\* every request carried the same key concurrently: all passed the lookup
\* before any row was committed; one was answered 202, the others 200
C2_Witness ==
    /\ \A r \in Reqs : pc[r] = "done" /\ req[r].idem = "abc" /\ req[r].image_uri # ""
    /\ \E r \in Reqs :
          /\ resp[r].code = 202
          /\ \A q \in Reqs \ {r} : resp[q].code = 200 /\ resp[q].via = "lost insert"
                                   /\ resp[q].job[1].id = resp[r].job[1].id

\* the status changes a job may make in one step
LegalStatusStep(a, b) ==
    \/ a = b
    \/ a = PENDING /\ b = RUNNING
    \/ a = RUNNING /\ b \in {SUCCEEDED, FAILED}

\* C3: in every step each job's status stays or moves along PENDING ->
\* RUNNING -> SUCCEEDED | FAILED, a row is created in PENDING, and no row is
\* removed
C3_StatusTransitions ==
    [][/\ DOMAIN jobs \subseteq DOMAIN jobs'
       /\ \A id \in DOMAIN jobs' :
             IF id \in DOMAIN jobs
             THEN LegalStatusStep(jobs[id].status, jobs'[id].status)
             ELSE jobs'[id].status = PENDING
       /\ \A r \in Reqs :
             (txn[r] = Null /\ txn'[r] # Null) => txn'[r][1].status = PENDING]_vars

\* one job has run to SUCCEEDED and another to FAILED
C3_Witness ==
    \E a, b \in DOMAIN jobs :
        /\ jobs[a].status = SUCCEEDED /\ jobs[a].started_at # Null
        /\ jobs[b].status = FAILED /\ jobs[b].started_at # Null

\* C4: a submit answered 200 (its key already has a job) changes no row, sends
\* no task and returns the row as it is, whatever the row's status
C4_ExistingJobUnchanged ==
    [][\A r \in Reqs :
          (pc[r] # "done" /\ pc'[r] = "done" /\ resp'[r].code = 200)
             => /\ jobs' = jobs /\ txn' = txn
                /\ queue' = queue /\ delays' = delays /\ runs' = runs
                /\ \E id \in RowsWithKey(req[r].idem) : resp'[r].job = Some(jobs[id])]_vars

\* the key of a FAILED job was submitted again: the answer is 200 with the
\* FAILED job, which stays FAILED with its one execution
C4_Witness ==
    \E r \in Reqs :
        /\ resp[r].code = 200 /\ resp[r].via = "found"
        /\ resp[r].job[1].status = FAILED
        /\ jobs[resp[r].job[1].id] = resp[r].job[1]
        /\ Len(delays) = 1 /\ Len(runs) = 1 /\ queue = <<>>

\* nothing is left to run: no submit is inside post, no task is queued and no
\* task execution is under way
Quiescent ==
    /\ \A r \in Reqs : pc[r] \in {"idle", "done"}
    /\ queue = <<>>
    /\ \A i \in DOMAIN runs : runs[i].state # "running"

\* C5: once nothing is left to run, every job whose submit was answered 202
\* is SUCCEEDED or FAILED: SUCCEEDED when its pipeline run returned, FAILED
\* when it raised
C5_AcceptedJobsTerminate ==
    Quiescent =>
        /\ \A r \in Reqs :
              resp[r].code = 202 => jobs[resp[r].job[1].id].status \in {SUCCEEDED, FAILED}
        /\ \A i \in DOMAIN runs :
              runs[i].out # NoOutcome =>
                 jobs[runs[i].job_id].status = IF runs[i].out[1].ok THEN SUCCEEDED ELSE FAILED

\* C6: a SUCCEEDED job has a receipt, a FAILED job has an error text, a
\* PENDING or RUNNING job has neither
C6_FieldsMatchStatus ==
    \A row \in AllRows :
        /\ row.status = SUCCEEDED => row.receipt # Null
        /\ row.status = FAILED => row.error # <<>>
        /\ row.status \in {PENDING, RUNNING} => (row.receipt = Null /\ row.error = <<>>)

\* rows in each of the four statuses have been seen with their fields
C6_Witness ==
    \E a, b \in DOMAIN jobs :
        /\ jobs[a].status = SUCCEEDED /\ jobs[a].receipt # Null /\ jobs[a].error = <<>>
        /\ jobs[b].status = FAILED /\ jobs[b].error # <<>> /\ jobs[b].receipt = Null

\* C7: a pipeline run whose model call was answered with a status other than
\* 200 raised a classified error, and its job is FAILED with that
\* classification in its error text
C7_Non200IsClassified ==
    \A i \in DOMAIN runs :
        (runs[i].out # NoOutcome /\ runs[i].out[1].model_status = "500")
           => /\ runs[i].out[1].exc \in ClassifiedErrors
              /\ jobs[runs[i].job_id].status = FAILED
              /\ jobs[runs[i].job_id].error # <<>>
              /\ jobs[runs[i].job_id].error[1] \in ClassifiedErrors

\* C14: every task execution a worker has started is of a job whose row is
\* committed: no worker starts on a job before the transaction that created
\* it has committed
C14_WorkerSeesCommittedJob ==
    \A i \in DOMAIN runs : runs[i].job_id \in DOMAIN jobs

\* a submit without image_uri is answered 400 without a job, and a submit
\* with image_uri that alone carries the key of an earlier rejected submit is
\* answered 202 with the key dispatched once
RejectedThenAccepted ==
    /\ \A r \in Reqs :
          (pc[r] = "done" /\ req[r].image_uri = "")
             => (resp[r].code = 400 /\ resp[r].job = Null)
    /\ \A r1, r2 \in Reqs :
          (/\ r1 < r2 /\ resp[r1].code = 400
           /\ req[r2].idem = req[r1].idem
           /\ Answered(req[r1].idem) = {r2})
          => /\ resp[r2].code = 202
             /\ Cardinality(DelaysForKey(req[r1].idem)) = 1

\* C15: a submit without image_uri is rejected with 400 in a step that
\* creates no job and sends no task, with or without an Idempotency-Key, and
\* a later submit with image_uri and the same key is answered 202 and
\* dispatched exactly once
C15_RejectedChangesNothing ==
    [][/\ \A r \in Reqs :
             (pc[r] # "done" /\ pc'[r] = "done" /\ req'[r].image_uri = "")
                => /\ resp'[r].code = 400
                   /\ jobs' = jobs /\ txn' = txn /\ next_id' = next_id
                   /\ queue' = queue /\ delays' = delays /\ runs' = runs
       /\ RejectedThenAccepted']_vars

\* a submit with key "abc" and no image_uri was rejected, and the next
\* submit, with that key and an image_uri, was answered 202 and dispatched
\* once
C15_Witness ==
    \E r1, r2 \in Reqs :
        /\ r1 < r2
        /\ resp[r1].code = 400 /\ req[r1].idem = "abc"
        /\ req[r2].idem = "abc" /\ req[r2].image_uri # ""
        /\ pc[r2] = "done" /\ resp[r2].code = 202
        /\ Cardinality(DelaysForKey("abc")) = 1
        /\ Cardinality(RowsWithKey("abc")) = 1

(***************************************************************************)
(* Properties of the normalizer                                            *)
(***************************************************************************)
\* the fields of the canonical record
CanonicalFields ==
    {"uuid", "total", "currency", "purchased_at", "category", "merchant", "items"}

\* C8: every call of the normalizer on an object the extractor returns gives a
\* record with all of uuid, total, currency, purchased_at, category, merchant
\* (name, abn, address) and items; no call raises
C8_NormalizerNeverRaises ==
    \A i \in DOMAIN results :
        /\ results[i][1] = "ok"
        /\ DOMAIN results[i][2] = CanonicalFields
        /\ {"name", "abn", "address"} \subseteq DOMAIN results[i][2].merchant

SuppliedUuid ==
    IF record_of(payload)[1] = "obj" THEN Get(record_of(payload)[2], "uuid") ELSE JNull

Usable(v) == v # JNull /\ v # JStr(<<>>)

\* the first usable value of an alias chain, `default` when there is none
ChainValue(values, default) ==
    IF \E i \in 1..Len(values) : Usable(values[i])
    THEN values[CHOOSE i \in 1..Len(values) :
                    Usable(values[i]) /\ \A j \in 1..(i - 1) : ~Usable(values[j])]
    ELSE default

\* the name inside the merchant object of dict rec, null when there is none
NestedName(rec) ==
    IF "merchant" \in DOMAIN rec /\ rec["merchant"][1] = "obj"
    THEN Get(rec["merchant"][2], "name")
    ELSE JNull

\* the total that dict rec resolves to: the number of the first usable value
\* among total, amount, grand_total, else 0.0
ChainTotal(rec) ==
    _to_float(ChainValue(<<Get(rec, "total"), Get(rec, "amount"), Get(rec, "grand_total")>>,
                         JNum(0)))

\* the merchant name that dict rec resolves to: the first usable value among
\* merchant_name, shop_name and the merchant object's name, else "Unknown"
ChainName(rec) ==
    ChainValue(<<Get(rec, "merchant_name"), Get(rec, "shop_name"), NestedName(rec)>>,
               JStr(StrUnknown))

\* C10: every record the normalizer returns has as total the first usable
\* value (present, non-null, non-empty) among total, amount, grand_total, else
\* 0.0, and as merchant name the first usable value among merchant_name,
\* shop_name and the merchant object's name, else "Unknown"
C10_AliasChains ==
    \A i \in DOMAIN results :
        results[i][1] = "ok" =>
            /\ results[i][2].total = ChainTotal(record_of(payload)[2])
            /\ results[i][2].merchant["name"] = ChainName(record_of(payload)[2])

\* the numeric fields of a line item
NumericFields == {"quantity", "unit_price", "amount"}

\* the number a source value of a line item stands for: null for an absent,
\* null or empty value, 0.0 for a value that float() does not parse
ExpectedNumber(v) ==
    IF v = JNull \/ v = JStr(<<>>) THEN JNull
    ELSE IF IsRaise(Float(v)) THEN JNum(0)
    ELSE JNum(Float(v)[2])

\* the entries of a list that are strings or objects, in their order
Kept(seq) == SelectSeq(seq, LAMBDA e : e[1] \in {"str", "obj"})

\* C11: for an object that holds only a non-empty items list, the normalizer
\* returns a record in which each of quantity, unit_price and amount of each
\* object entry is null for an absent, null or empty source value, 0.0 for a
\* value that is no number, and the number otherwise, whatever the other two
\* fields of the entry hold
C11_ItemNumbers ==
    \A i \in DOMAIN results :
        (/\ DOMAIN payload = {"items"}
         /\ payload["items"][1] = "list"
         /\ payload["items"][2] # <<>>)
        => /\ results[i][1] = "ok"
           /\ Len(results[i][2].items) = Len(Kept(payload["items"][2]))
           /\ \A n \in 1..Len(Kept(payload["items"][2])) :
                 Kept(payload["items"][2])[n][1] = "obj" =>
                    \A f \in NumericFields :
                       results[i][2].items[n][f] =
                          ExpectedNumber(Get(Kept(payload["items"][2])[n][2], f))

\* the value the line items are read from: that of items when the key is
\* present (and not null), else that of line_items
SourceItems(rec) ==
    IF Get(rec, "items") # JNull THEN rec["items"] ELSE Get(rec, "line_items")

\* the entries of the source value that are kept: none when it is no list
ExpectedEntries(rec) ==
    IF SourceItems(rec)[1] = "list" THEN Kept(SourceItems(rec)[2]) ELSE <<>>

\* the texts an object entry offers as line_text
TextsOf(entry) ==
    {Get(entry, "line_text"), Get(entry, "description"), Get(entry, "name"), JStr(<<>>)}

\* C13: the items of a returned record are the string and object entries, in
\* their order, of the value of `items` whenever that key is present; a
\* present `items` that is no list or an empty list gives no items even when
\* line_items holds a list, and line_items is read only when items is absent
C13_ItemsSource ==
    \A i \in DOMAIN results :
        (DOMAIN payload \subseteq {"items", "line_items"} /\ results[i][1] = "ok")
        => /\ Len(results[i][2].items) = Len(ExpectedEntries(payload))
           /\ \A n \in 1..Len(ExpectedEntries(payload)) :
                 IF ExpectedEntries(payload)[n][1] = "str"
                 THEN results[i][2].items[n].line_text = ExpectedEntries(payload)[n]
                 ELSE results[i][2].items[n].line_text \in TextsOf(ExpectedEntries(payload)[n][2])

(***************************************************************************)
(* Properties of the pipeline                                              *)
(***************************************************************************)
\* the prefix of the stage order that ends with the n-th stage
StagesUpTo(n) == SubSeq(AllStages, 1, n)

\* the outcome `out` is the failure `failed` of the n-th stage, and no stage
\* after it was invoked
StoppedAt(out, failed, n) ==
    /\ ~out.ok
    /\ out.exc = failed.exc /\ out.msg = failed.msg
    /\ out.value = <<>>
    /\ out.stages = StagesUpTo(n)

\* the outcome `out` of a call whose first three stages returned `extracted`
\* and whose normalizer ended with `normalized`
EndedWith(out, extracted, normalized) ==
    /\ out.stages = AllStages
    /\ IF IsRaise(normalized)
       THEN ~out.ok /\ out.exc = normalized[2] /\ out.value = <<>>
       ELSE /\ out.ok /\ out.value # <<>>
            /\ out.value[1].raw_json = extracted
            /\ \A f \in DOMAIN normalized[2] : out.value[1][f] = normalized[2][f]

\* the outcome `out` of a call whose first two stages succeeded, by the
\* outcome of extract_json
AfterModel(out, env, extracted) ==
    IF ~extracted.ok THEN StoppedAt(out, extracted, 3)
    ELSE EndedWith(out, extracted.value[1],
                   _normalize_payload(extracted.value[1], env.uuid4))

\* the outcome `out` of a call whose first stage succeeded, by the outcome
\* of call_model
AfterImage(out, env, called) ==
    IF ~called.ok THEN StoppedAt(out, called, 2)
    ELSE AfterModel(out, env, _extract_json_payload(called.value[1]))

\* the outcome `out` of a call, by the outcome of load_image
InStageOrder(out, env, loaded) ==
    IF ~loaded.ok THEN StoppedAt(out, loaded, 1)
    ELSE AfterImage(out, env, _call_model(loaded.value[1], env))

\* C12: a call of parse_receipt invokes load image, call model, extract JSON
\* and normalize in this order; the first stage that fails ends the call
\* with that stage's error, no later stage invoked and no ParseResult; a
\* ParseResult is returned only when all four stages succeeded, and its
\* raw_json is the object extract JSON returned
C12_StagesInOrder ==
    parsed # Null =>
        InStageOrder(parsed[1].out, parsed[1].env,
                     _load_image_as_base64(parsed[1].image_uri, parsed[1].env))

\* a call on a model text that wraps the receipt in receipt_data returned a
\* ParseResult: its fields are those of the receipt inside, its raw_json is
\* the wrapping object
C12_Witness ==
    /\ parsed # Null
    /\ parsed[1].out.ok
    /\ parsed[1].out.stages = AllStages
    /\ parsed[1].out.value[1].raw_json = WrappedPayload
    /\ parsed[1].out.value[1].total = JNum(1250)

====
